---- MODULE Spec2Model ----
(***************************************************************************)
(* State containers of the Vite-Projects learning repository:              *)
(*   - the Context todo store (App of todoContext: todos + four mutators), *)
(*   - the Redux Toolkit todo slice (ADD / REMOVE reducer),                *)
(*   - the useCurrencyInfo hook (one fetch per currency, data slot),       *)
(*   - the Context consumers rendered without a provider,                  *)
(*   - the theme store (themeMode, lightTheme, darkTheme, ThemeBtn),       *)
(*   - the user store (UserContextProvider, Login, Profile),               *)
(*   - the todo store with React's update queue, and on the heap,          *)
(*   - the reload of a page,                                               *)
(*   - the teardown of the component that calls useCurrencyInfo,           *)
(*   - TodoForm and TodoItem.                                              *)
(* Each container has its own specification; the variables of the other    *)
(* containers stay at their initial value.                                 *)
(***************************************************************************)
EXTENDS Integers, Sequences, FiniteSets, TLC

VARIABLES
    todos,      \* Context todo store: the useState collection of App
    now,        \* value Date.now() returns at this moment (milliseconds)
    err,        \* error raised out of a state updater ("none" when none)
    last,       \* history: the last mutator invoked, its arguments, the collection before it
    state,      \* Reducer store: the todos collection of the slice
    nextId,     \* Reducer store: next identifier the id generator hands out
    live,       \* history: records added to the reducer store and not since removed
    lastAction, \* history: the last action dispatched and the collection before it
    currency,   \* useCurrencyInfo: the currency argument of the latest render
    data,       \* useCurrencyInfo: the useState slot the hook returns
    reqs,       \* useCurrencyInfo: the fetches issued so far, each with its position
    unhandled,  \* useCurrencyInfo: a rejection left the promise chain uncaught
    lastSettle, \* history: how the last settled fetch ended and the data before it
    defaultTodos,   \* no provider: the todos of the value useTodo() returns
    defaultErr,     \* no provider: error raised by a default mutator ("none" when none)
    defaultLast,    \* history: the last default mutator invoked and the number of calls
    outsideErr,     \* no provider: error raised while rendering a UserContext consumer
    outsideLast,    \* history: the UserContext consumer rendered last without provider
    themeMode,      \* theme store: the useState slot of App
    htmlClass,      \* theme store: the theme classes on the root html element
    effectDue,      \* theme store: the [themeMode] effect is scheduled and has not run
    themeCalls,     \* history: the setters invoked so far, in order
    themeLast,      \* history: who invoked the last setter, and the mode before it
    user,           \* user store: the useState slot of UserContextProvider
    pendingUser,    \* user store: values passed to setUser and not yet rendered
    seen,           \* user store: the context value each consumer rendered with last
    profileText,    \* user store: what Profile displays
    loginUsername,  \* Login: the username input state
    loginPassword,  \* Login: the password input state
    submitted,      \* history: every { username, password } a submit passed to setUser
    userLast,       \* history: the last Login event and the value it submitted
    committed,      \* batched todo store: the collection of the last render
    queue,          \* batched todo store: the setTodos calls made since the last render
    renderErr,      \* batched todo store: error raised while the queue was processed
    arrays,         \* heap: the array objects in use, each a sequence of object references
    objects,        \* heap: the todo objects in use, each with its fields
    todosRef,       \* heap: the array the todos state of App refers to
    snapshot,       \* heap: the array a consumer received at its last render, with a copy of its contents then
    heapErr,        \* heap: error raised out of a state updater ("none" when none)
    heapLast,       \* history: the last mutator invoked, the array and the contents before it
    page,           \* the application the browser process runs ("none" while none is followed)
    mounted,        \* useCurrencyInfo: the component that calls the hook is mounted
    inFlightAtTeardown, \* history: the fetches that were in flight when the component was torn down
    formInput,      \* TodoForm: the todo state bound to the input
    formTodos,      \* TodoForm: the collection of the store addTodo belongs to
    formLast,       \* history: the last event of TodoForm, the input and the collection before it
    itemTodos,      \* TodoItem: the collection of the store, one TodoItem per record
    isTodoEditable, \* TodoItem: the edit mode of the item of each id
    todoMsgOf,      \* TodoItem: the text in the input of the item of each id
    itemErr,        \* TodoItem: error raised out of a state updater ("none" when none)
    itemLast        \* history: the last event of a TodoItem, its todo's flag and its edit mode before it

todoVars == <<todos, now, err, last>>
reducerVars == <<state, nextId, live, lastAction>>
currencyVars == <<currency, data, reqs, unhandled, lastSettle>>
noProviderVars == <<defaultTodos, defaultErr, defaultLast, outsideErr, outsideLast>>
themeVars == <<themeMode, htmlClass, effectDue, themeCalls, themeLast>>
userVars ==
    <<user, pendingUser, seen, profileText, loginUsername, loginPassword,
      submitted, userLast>>
batchVars == <<committed, queue, renderErr>>
heapVars == <<arrays, objects, todosRef, snapshot, heapErr, heapLast>>
pageVars == <<page>>
teardownVars == <<mounted, inFlightAtTeardown>>
formVars == <<formInput, formTodos, formLast>>
itemVars == <<itemTodos, isTodoEditable, todoMsgOf, itemErr, itemLast>>
notTodoVars ==
    <<reducerVars, currencyVars, noProviderVars, themeVars,
      userVars, batchVars, heapVars, pageVars, teardownVars,
      formVars, itemVars>>
notReducerVars ==
    <<todoVars, currencyVars, noProviderVars, themeVars, userVars,
      batchVars, heapVars, pageVars, teardownVars, formVars,
      itemVars>>
notCurrencyVars ==
    <<todoVars, reducerVars, noProviderVars, themeVars, userVars,
      batchVars, heapVars, pageVars, teardownVars, formVars,
      itemVars>>
notNoProviderVars ==
    <<todoVars, reducerVars, currencyVars, themeVars, userVars,
      batchVars, heapVars, pageVars, teardownVars, formVars,
      itemVars>>
notThemeVars ==
    <<todoVars, reducerVars, currencyVars, noProviderVars,
      userVars, batchVars, heapVars, pageVars, teardownVars,
      formVars, itemVars>>
notUserVars ==
    <<todoVars, reducerVars, currencyVars, noProviderVars,
      themeVars, batchVars, heapVars, pageVars, teardownVars,
      formVars, itemVars>>
notBatchVars ==
    <<todoVars, reducerVars, currencyVars, noProviderVars,
      themeVars, userVars, heapVars, pageVars, teardownVars,
      formVars, itemVars>>
notHeapVars ==
    <<todoVars, reducerVars, currencyVars, noProviderVars,
      themeVars, userVars, batchVars, pageVars, teardownVars,
      formVars, itemVars>>
notPageVars ==
    <<todoVars, reducerVars, currencyVars, noProviderVars,
      themeVars, userVars, batchVars, heapVars, teardownVars,
      formVars, itemVars>>
notTeardownVars ==
    <<todoVars, reducerVars, currencyVars, noProviderVars,
      themeVars, userVars, batchVars, heapVars, pageVars, formVars,
      itemVars>>
notFormVars ==
    <<todoVars, reducerVars, currencyVars, noProviderVars,
      themeVars, userVars, batchVars, heapVars, pageVars,
      teardownVars, itemVars>>
notItemVars ==
    <<todoVars, reducerVars, currencyVars, noProviderVars,
      themeVars, userVars, batchVars, heapVars, pageVars,
      teardownVars, formVars>>
notCurrencyTeardownVars ==
    <<todoVars, reducerVars, noProviderVars, themeVars, userVars,
      batchVars, heapVars, pageVars, formVars, itemVars>>
vars ==
    <<todoVars, reducerVars, currencyVars, noProviderVars,
      themeVars, userVars, batchVars, heapVars, pageVars,
      teardownVars, formVars, itemVars>>

(***************************************************************************)
(* Bounds                                                                  *)
(***************************************************************************)
MaxTime == 2        \* Date.now() ranges over 1..MaxTime
MaxTodos == 2       \* addTodo is offered while the collection is shorter
MaxAdds == 3        \* ADD is offered while fewer ids were generated
MaxFetches == 3     \* the currency argument changes while fewer fetches were issued
MaxDefaultCalls == 3    \* default mutators are invoked while fewer calls were made
MaxSetterCalls == 4     \* theme setters are invoked while fewer calls were made
MaxSubmits == 2         \* Login is submitted while fewer submits were made
MaxBatch == 2           \* mutators are invoked while fewer calls wait for the render
MaxHeapCalls == 3       \* mutators are invoked on the heap while fewer calls were made
MaxInFlight == 2        \* the currency argument changes before a teardown while fewer fetches were issued
MaxItems == 1           \* todos are added to the item list while it is shorter

Texts == {"buy milk", "walk dog"}

NoId == 0
Times == 1..MaxTime
Ids == Times

\* a todo record { id, todo, completed }
TodoRecords == [id : Ids, todo : Texts, completed : BOOLEAN]
\* the argument of addTodo: { todo, completed }, optionally with an own id
Payloads == [id : Ids \cup {NoId}, todo : Texts, completed : BOOLEAN]

IdsOf(coll) == {coll[i].id : i \in 1..Len(coll)}
HasId(coll, id) == \E i \in 1..Len(coll) : coll[i].id = id
DistinctIds(coll) == \A i, j \in 1..Len(coll) : i # j => coll[i].id # coll[j].id

(***************************************************************************)
(* Context todo store: the state updaters passed to setTodos               *)
(***************************************************************************)

\* a variant that appends the new record instead of prepending it
addTodoUpdater_Appends(prev, t, todo) ==
    prev \o <<[id |-> IF todo.id # NoId THEN todo.id ELSE t,
               todo |-> todo.todo,
               completed |-> todo.completed]>>

\* prev => [{ id: Date.now(), ...todo }, ...prev]
\* the spread comes after id, so an own id of the payload wins
addTodoUpdater(prev, t, todo) ==
    <<[id |-> IF todo.id # NoId THEN todo.id ELSE t,
       todo |-> todo.todo,
       completed |-> todo.completed]>> \o prev

\* a variant that drops the id comparison and replaces every record
updatedTodoUpdater_ReplacesAll(prev, id, todo) ==
    [i \in 1..Len(prev) |-> todo]

\* prev.map(prevTodo => prevTodo.id === id ? todo : prevTodo)
updatedTodoUpdater(prev, id, todo) ==
    [i \in 1..Len(prev) |-> IF prev[i].id = id THEN todo ELSE prev[i]]

\* prev.map(prevTodo => prevTodo.id === id ? todo : prevTodo), where no
\* binding of todo is in scope: evaluating it raises a ReferenceError, which
\* happens exactly when some record matches
deleteTodoThrows(prev, id) == HasId(prev, id)

deleteTodoUpdater(prev, id) ==
    [i \in 1..Len(prev) |-> prev[i]]

\* a variant that sets the flag instead of negating it
toggleCompleteUpdater_SetsTrue(prev, id) ==
    [i \in 1..Len(prev) |->
        IF prev[i].id = id
        THEN [prev[i] EXCEPT !.completed = TRUE]
        ELSE prev[i]]

\* a variant that drops the id comparison and negates every flag
toggleCompleteUpdater_TogglesAll(prev, id) ==
    [i \in 1..Len(prev) |-> [prev[i] EXCEPT !.completed = ~prev[i].completed]]

\* prev.map(prevTodo => prevTodo.id === id
\*     ? { ...prevTodo, completed: !prevTodo.completed } : prevTodo)
toggleCompleteUpdater(prev, id) ==
    [i \in 1..Len(prev) |->
        IF prev[i].id = id
        THEN [prev[i] EXCEPT !.completed = ~prev[i].completed]
        ELSE prev[i]]

NoTodo == [id |-> NoId, todo |-> "", completed |-> FALSE]

Hist(op, id, todo, twice, before2) ==
    [op |-> op, id |-> id, todo |-> todo, before |-> todos,
     twice |-> twice, before2 |-> before2]

TodoInit ==
    /\ todos = <<>>
    /\ now = 1
    /\ err = "none"
    /\ last = [op |-> "init", id |-> NoId, todo |-> NoTodo, before |-> <<>>,
               twice |-> FALSE, before2 |-> <<>>]

\* time passes between two events
Tick ==
    /\ err = "none"
    /\ now < MaxTime
    /\ now' = now + 1
    /\ UNCHANGED <<todos, err, last>>
    /\ UNCHANGED notTodoVars

addTodo(todo) ==
    /\ err = "none"
    /\ Len(todos) < MaxTodos
    /\ todos' = addTodoUpdater(todos, now, todo)
    /\ last' = Hist("addTodo", NoId, todo, FALSE, <<>>)
    /\ UNCHANGED <<now, err>>
    /\ UNCHANGED notTodoVars

updatedTodo(id, todo) ==
    /\ err = "none"
    /\ todos' = updatedTodoUpdater(todos, id, todo)
    /\ last' = Hist("updatedTodo", id, todo, FALSE, <<>>)
    /\ UNCHANGED <<now, err>>
    /\ UNCHANGED notTodoVars

deleteTodo(id) ==
    /\ err = "none"
    /\ IF deleteTodoThrows(todos, id)
       THEN /\ err' = "ReferenceError"
            /\ UNCHANGED todos
       ELSE /\ todos' = deleteTodoUpdater(todos, id)
            /\ UNCHANGED err
    /\ last' = Hist("deleteTodo", id, NoTodo, FALSE, <<>>)
    /\ UNCHANGED now
    /\ UNCHANGED notTodoVars

toggleComplete(id) ==
    /\ err = "none"
    /\ todos' = toggleCompleteUpdater(todos, id)
    /\ LET again == last.op = "toggleComplete" /\ last.id = id
       IN last' = Hist("toggleComplete", id, NoTodo, again,
                       IF again THEN last.before ELSE <<>>)
    /\ UNCHANGED <<now, err>>
    /\ UNCHANGED notTodoVars

TodoNext ==
    \/ Tick
    \/ \E todo \in Payloads : addTodo(todo)
    \/ \E id \in Ids, todo \in TodoRecords : updatedTodo(id, todo)
    \/ \E id \in Ids : deleteTodo(id)
    \/ \E id \in Ids : toggleComplete(id)

(***************************************************************************)
(* Reducer store (todoSlice): ADD and REMOVE                               *)
(***************************************************************************)
ReducerIds == 1..(MaxAdds + 1)

\* the app starts with a default todo: "Hello world"
initialState == <<[id |-> 1, text |-> "Hello world", completed |-> FALSE]>>

\* a variant that gives every new record the same id
ADD_SameId(st, id, payload) ==
    <<[id |-> 1, text |-> payload.text, completed |-> payload.completed]>> \o st

\* ADD(payload) -> [newRecord, ...state], newRecord carrying a fresh id
ADD(st, id, payload) ==
    <<[id |-> id, text |-> payload.text, completed |-> payload.completed]>> \o st

\* a variant that drops the first record whatever its id
REMOVE_DropsFirst(st, id) == IF st = <<>> THEN st ELSE Tail(st)

\* REMOVE(id) -> state with the matching record filtered out
REMOVE(st, id) == SelectSeq(st, LAMBDA r : r.id # id)

reduce(st, action) ==
    IF action.type = "ADD" THEN ADD(st, action.id, action.payload)
    ELSE IF action.type = "REMOVE" THEN REMOVE(st, action.id)
    ELSE st

ReducerInit ==
    /\ state = initialState
    /\ nextId = 2
    /\ live = {initialState[i] : i \in 1..Len(initialState)}
    /\ lastAction = [type |-> "init", id |-> NoId, before |-> <<>>]

dispatchADD(payload) ==
    /\ nextId <= MaxAdds + 1
    /\ LET action == [type |-> "ADD", id |-> nextId, payload |-> payload]
       IN /\ state' = reduce(state, action)
          /\ live' = live \cup {[id |-> nextId, text |-> payload.text,
                                 completed |-> payload.completed]}
    /\ nextId' = nextId + 1
    /\ lastAction' = [type |-> "ADD", id |-> nextId, before |-> state]
    /\ UNCHANGED notReducerVars

dispatchREMOVE(id) ==
    /\ state' = reduce(state, [type |-> "REMOVE", id |-> id])
    /\ live' = {r \in live : r.id # id}
    /\ lastAction' = [type |-> "REMOVE", id |-> id, before |-> state]
    /\ UNCHANGED nextId
    /\ UNCHANGED notReducerVars

ReducerNext ==
    \/ \E text \in Texts : dispatchADD([text |-> text, completed |-> FALSE])
    \/ \E id \in ReducerIds : dispatchREMOVE(id)

(***************************************************************************)
(* useCurrencyInfo: one fetch per value of the currency argument           *)
(***************************************************************************)
Currencies == {"usd", "inr"}

\* the rates mapping the service returns for a base currency, as a set of
\* <<currency code, multiplier>> pairs
RatesOf(base) ==
    {<<c, IF c = base THEN 1 ELSE IF base = "usd" THEN 83 ELSE 12>> : c \in Currencies}

\* values of the data slot: an object (a mapping) or undefined
Mapping(rates) == [defined |-> TRUE, rates |-> rates]
EmptyMapping == Mapping({})
Undefined == [defined |-> FALSE, rates |-> {}]

\* HTTP statuses a response can carry: one 2xx, one not
Statuses == {200, 404}
Is2xx(status) == status >= 200 /\ status < 300

\* what a response body can be: a JSON object with a rates field, a JSON
\* object without one (an error document), the JSON value null, or text
\* that is not JSON
Bodies == {"rates", "norates", "null", "malformed"}
BodiesOf(status) ==
    IF Is2xx(status) THEN Bodies ELSE Bodies \ {"rates"}

\* .then((res) => res.json()): rejects when the body is not JSON
jsonRejects(body) == body = "malformed"

\* .then((res) => setData(res.rates)): reading a property of null throws;
\* a missing property reads as undefined
ratesThrows(body) == body = "null"
ratesOfBody(body, base) ==
    IF body = "rates" THEN Mapping(RatesOf(base)) ELSE Undefined

\* a variant whose handler only logs and leaves the data as it was
catchHandler_KeepsData(before) == [data |-> before, unhandled |-> FALSE]

\* .catch((error) => { console.error(...); setData({}) })
catchHandler(before) == [data |-> EmptyMapping, unhandled |-> FALSE]

\* the promise chain of the effect, run on a fetch that rejected
onFetchRejected(before) == catchHandler(before)

\* the promise chain of the effect, run on a response (any status: fetch
\* resolves on every HTTP status)
onResponse(before, body, base) ==
    IF jsonRejects(body) \/ ratesThrows(body)
    THEN catchHandler(before)
    ELSE [data |-> ratesOfBody(body, base), unhandled |-> FALSE]

ReqIds == 1..MaxFetches
Request(c) == [cur |-> c, stage |-> "pending", status |-> 0, body |-> "none"]

CurrencyInit ==
    /\ currency = "usd"
    /\ data = EmptyMapping
    /\ reqs = <<Request("usd")>>
    /\ unhandled = FALSE
    /\ lastSettle = [kind |-> "none", status |-> 0, before |-> EmptyMapping]

\* a render with a new currency argument: the effect runs again and fetches
changeCurrency(c) ==
    /\ c # currency
    /\ Len(reqs) < MaxFetches
    /\ currency' = c
    /\ reqs' = Append(reqs, Request(c))
    /\ UNCHANGED <<data, unhandled, lastSettle>>
    /\ UNCHANGED notCurrencyVars

\* network error: the promise of fetch rejects
fetchRejects(i) ==
    /\ i \in DOMAIN reqs
    /\ reqs[i].stage = "pending"
    /\ LET r == onFetchRejected(data)
       IN /\ data' = r.data
          /\ unhandled' = (unhandled \/ r.unhandled)
    /\ reqs' = [reqs EXCEPT ![i].stage = "settled"]
    /\ lastSettle' = [kind |-> "networkError", status |-> 0, before |-> data]
    /\ UNCHANGED currency
    /\ UNCHANGED notCurrencyVars

\* the response arrives: the promise of fetch resolves
responseArrives(i, status, body) ==
    /\ i \in DOMAIN reqs
    /\ reqs[i].stage = "pending"
    /\ body \in BodiesOf(status)
    /\ reqs' = [reqs EXCEPT ![i].stage = "responded",
                            ![i].status = status, ![i].body = body]
    /\ UNCHANGED <<currency, data, unhandled, lastSettle>>
    /\ UNCHANGED notCurrencyVars

\* the rest of the chain: res.json(), then setData(res.rates), or the catch
bodyRead(i) ==
    /\ i \in DOMAIN reqs
    /\ reqs[i].stage = "responded"
    /\ LET r == onResponse(data, reqs[i].body, reqs[i].cur)
       IN /\ data' = r.data
          /\ unhandled' = (unhandled \/ r.unhandled)
    /\ reqs' = [reqs EXCEPT ![i].stage = "settled"]
    /\ lastSettle' = [kind |-> IF jsonRejects(reqs[i].body) THEN "malformedJSON"
                               ELSE IF ratesThrows(reqs[i].body) THEN "nullBody"
                               ELSE "parsed",
                      status |-> reqs[i].status, before |-> data]
    /\ UNCHANGED currency
    /\ UNCHANGED notCurrencyVars

CurrencyNext ==
    \/ \E c \in Currencies : changeCurrency(c)
    \/ \E i \in ReqIds : fetchRejects(i)
    \/ \E i \in ReqIds, status \in Statuses, body \in Bodies :
          responseArrives(i, status, body)
    \/ \E i \in ReqIds : bodyRead(i)

(***************************************************************************)
(* Consumers evaluated with no enclosing provider                          *)
(***************************************************************************)

\* createContext({ todos: [{ id: 1, todo: " Todo msg", completed: false }], ... })
TodoContextDefault ==
    [todos |-> <<[id |-> 1, todo |-> " Todo msg", completed |-> FALSE]>>]

\* useTodo = () => useContext(TodoContext): with no provider, the default
useTodo == TodoContextDefault

\* a variant whose default addTodo prepends to the default list
defaultAddTodo_Prepends(value, todo) ==
    [value EXCEPT !.todos = <<[id |-> 1, todo |-> todo.todo,
                               completed |-> todo.completed]>> \o @]

\* addTodo: (_todo) => {}
defaultAddTodo(value, todo) == value

\* updatedTodo: (_id, _todo) => {}
defaultUpdatedTodo(value, id, todo) == value

\* deleteTodo: (_id) => {}
defaultDeleteTodo(value, id) == value

\* toggleComplete: (_id) => {}
defaultToggleComplete(value, id) == value

\* const UserContext = React.createContext(): no default value is given,
\* so useContext yields undefined outside a provider
UserContextDefault == [defined |-> FALSE]

\* const { setUser } = useContext(UserContext) / const { user } = ...:
\* destructuring undefined raises a TypeError
destructureThrows(value) == ~value.defined

NoProviderInit ==
    /\ defaultTodos = useTodo.todos
    /\ defaultErr = "none"
    /\ defaultLast = [op |-> "init", id |-> NoId, todo |-> NoTodo, calls |-> 0]
    /\ outsideErr = "none"
    /\ outsideLast = "none"

DefaultCall(op, id, todo, value) ==
    /\ defaultLast.calls < MaxDefaultCalls
    /\ defaultTodos' = value.todos
    /\ defaultLast' = [op |-> op, id |-> id, todo |-> todo,
                       calls |-> defaultLast.calls + 1]
    /\ UNCHANGED <<defaultErr, outsideErr, outsideLast>>

\* useTodo().addTodo(todo) with no provider
noProviderAddTodo(todo) ==
    /\ DefaultCall("addTodo", NoId, todo, defaultAddTodo(useTodo, todo))
    /\ UNCHANGED notNoProviderVars

\* useTodo().updatedTodo(id, todo) with no provider
noProviderUpdatedTodo(id, todo) ==
    /\ DefaultCall("updatedTodo", id, todo, defaultUpdatedTodo(useTodo, id, todo))
    /\ UNCHANGED notNoProviderVars

\* useTodo().deleteTodo(id) with no provider
noProviderDeleteTodo(id) ==
    /\ DefaultCall("deleteTodo", id, NoTodo, defaultDeleteTodo(useTodo, id))
    /\ UNCHANGED notNoProviderVars

\* useTodo().toggleComplete(id) with no provider
noProviderToggleComplete(id) ==
    /\ DefaultCall("toggleComplete", id, NoTodo, defaultToggleComplete(useTodo, id))
    /\ UNCHANGED notNoProviderVars

\* Login or Profile evaluated outside UserContextProvider
renderOutside(consumer) ==
    /\ outsideLast' = consumer
    /\ outsideErr' = IF destructureThrows(UserContextDefault)
                     THEN "TypeError" ELSE "none"
    /\ UNCHANGED <<defaultTodos, defaultErr, defaultLast>>
    /\ UNCHANGED notNoProviderVars

NoProviderNext ==
    \/ \E todo \in Payloads : noProviderAddTodo(todo)
    \/ \E id \in Ids, todo \in TodoRecords : noProviderUpdatedTodo(id, todo)
    \/ \E id \in Ids : noProviderDeleteTodo(id)
    \/ \E id \in Ids : noProviderToggleComplete(id)
    \/ \E consumer \in {"Login", "Profile"} : renderOutside(consumer)

(***************************************************************************)
(* Theme store: App of themSwitcher, ThemeBtn                              *)
(***************************************************************************)
ThemeVariants == {"light", "dark"}

\* const [themeMode, setThemeMode] = useState("light")
initialThemeMode == "light"

\* lightTheme = () => { setThemeMode("light") }
lightThemeMode == "light"

\* a variant of darkTheme that is a copy of lightTheme
darkThemeMode_Light == "light"

\* a variant of darkTheme that sets a value outside the declared variants
darkThemeMode_Capital == "Dark"

\* darkTheme = () => { setThemeMode("dark") }
darkThemeMode == "dark"

\* a variant of the effect that adds the class without removing the old one
applyClass_AddsOnly(classes, mode) == classes \cup {mode}

\* classList.remove("light", "dark"); classList.add(themeMode)
applyClass(classes, mode) == (classes \ {"light", "dark"}) \cup {mode}

ThemeInit ==
    /\ themeMode = initialThemeMode
    /\ htmlClass = {}
    /\ effectDue = TRUE
    /\ themeCalls = <<>>
    /\ themeLast = [via |-> "none", checked |-> FALSE, before |-> initialThemeMode]

\* setThemeMode(mode): an equal value leaves the state and schedules nothing;
\* a new value re-renders App, whose [themeMode] effect is then due
setThemeMode(setter, mode, via, checked) ==
    /\ Len(themeCalls) < MaxSetterCalls
    /\ themeMode' = mode
    /\ effectDue' = (effectDue \/ mode # themeMode)
    /\ themeCalls' = Append(themeCalls, setter)
    /\ themeLast' = [via |-> via, checked |-> checked, before |-> themeMode]
    /\ UNCHANGED htmlClass

lightTheme ==
    /\ setThemeMode("lightTheme", lightThemeMode, "direct", FALSE)
    /\ UNCHANGED notThemeVars

darkTheme ==
    /\ setThemeMode("darkTheme", darkThemeMode, "direct", FALSE)
    /\ UNCHANGED notThemeVars

\* ThemeBtn: const darkModeStatus = e.currentTarget.checked;
\* if (darkModeStatus) darkTheme() else lightTheme()
onChangeBtn(checked) ==
    /\ IF checked
       THEN setThemeMode("darkTheme", darkThemeMode, "ThemeBtn", checked)
       ELSE setThemeMode("lightTheme", lightThemeMode, "ThemeBtn", checked)
    /\ UNCHANGED notThemeVars

\* useEffect(() => { remove("light", "dark"); add(themeMode) }, [themeMode])
themeEffect ==
    /\ effectDue
    /\ htmlClass' = applyClass(htmlClass, themeMode)
    /\ effectDue' = FALSE
    /\ UNCHANGED <<themeMode, themeCalls, themeLast>>
    /\ UNCHANGED notThemeVars

ThemeNext ==
    \/ lightTheme
    \/ darkTheme
    \/ \E checked \in BOOLEAN : onChangeBtn(checked)
    \/ themeEffect

(***************************************************************************)
(* User store: UserContextProvider, Login, Profile of miniContext          *)
(***************************************************************************)
Usernames == {"", "ann", "bob"}
Passwords == {"", "pw1"}
Consumers == {"Login", "Profile"}

\* the value of a property an object does not have
NoValue == "undefined"

\* React.useState({}): an object with neither username nor password
EmptyUser == [username |-> NoValue, password |-> NoValue]

\* a variant of handleSubmit that only patches the username of the user
submitValue_PatchesUsername(prev, username, password) ==
    [prev EXCEPT !.username = username]

\* handleSubmit: setUser({ username, password })
submitValue(prev, username, password) ==
    [username |-> username, password |-> password]

\* a variant of the provider that hands out a value fixed at mount
contextValue_FixedAtMount(u) == EmptyUser

\* <UserContext.Provider value={{ user, setUser }}>
contextValue(u) == u

\* a variant of Profile that greets whenever there is a user object
Profile_NoUsernameTest(u) == <<"Welcome ", u.username>>

\* if (!user || !user.username) return <div>Please Login</div>;
\* return <div>Welcome {user.username}</div>
Profile(u) ==
    IF u.username = NoValue \/ u.username = ""
    THEN <<"Please Login">>
    ELSE <<"Welcome ", u.username>>

UserInit ==
    /\ user = EmptyUser
    /\ pendingUser = <<>>
    /\ seen = [c \in Consumers |-> contextValue(EmptyUser)]
    /\ profileText = Profile(contextValue(EmptyUser))
    /\ loginUsername = ""
    /\ loginPassword = ""
    /\ submitted = <<>>
    /\ userLast = [op |-> "init", value |-> EmptyUser]

\* Login: onChange={(e) => setUsername(e.target.value)}
setUsername(value) ==
    /\ value # loginUsername
    /\ loginUsername' = value
    /\ UNCHANGED <<user, pendingUser, seen, profileText, loginPassword,
                   submitted, userLast>>
    /\ UNCHANGED notUserVars

\* Login: onChange={(e) => setPassword(e.target.value)}
setPassword(value) ==
    /\ value # loginPassword
    /\ loginPassword' = value
    /\ UNCHANGED <<user, pendingUser, seen, profileText, loginUsername,
                   submitted, userLast>>
    /\ UNCHANGED notUserVars

\* Login: handleSubmit = (e) => { e.preventDefault(); setUser({ username, password }) }
handleSubmit ==
    /\ Len(submitted) < MaxSubmits
    /\ LET form == [username |-> loginUsername, password |-> loginPassword]
       IN /\ pendingUser' = Append(pendingUser,
                 submitValue(seen["Login"], loginUsername, loginPassword))
          /\ submitted' = Append(submitted, form)
          /\ userLast' = [op |-> "handleSubmit", value |-> form]
    /\ UNCHANGED <<user, seen, profileText, loginUsername, loginPassword>>
    /\ UNCHANGED notUserVars

\* UserContextProvider renders: the queued setUser values are applied in
\* order, each replacing the state
renderProvider ==
    /\ pendingUser # <<>>
    /\ user' = pendingUser[Len(pendingUser)]
    /\ pendingUser' = <<>>
    /\ UNCHANGED <<seen, profileText, loginUsername, loginPassword,
                   submitted, userLast>>
    /\ UNCHANGED notUserVars

\* a consumer of the context renders again once the provider's value differs
\* from the one it rendered with
renderConsumer(c) ==
    /\ seen[c] # contextValue(user)
    /\ seen' = [seen EXCEPT ![c] = contextValue(user)]
    /\ profileText' = IF c = "Profile" THEN Profile(contextValue(user))
                      ELSE profileText
    /\ UNCHANGED <<user, pendingUser, loginUsername, loginPassword,
                   submitted, userLast>>
    /\ UNCHANGED notUserVars

UserNext ==
    \/ \E value \in Usernames : setUsername(value)
    \/ \E value \in Passwords : setPassword(value)
    \/ handleSubmit
    \/ renderProvider
    \/ \E c \in Consumers : renderConsumer(c)

(***************************************************************************)
(* Context todo store with React's update queue: the mutators invoked      *)
(* between two renders of App                                              *)
(***************************************************************************)
\* TodoForm.add: addTodo({ todo, completed: false })
FormPayloads == {[id |-> NoId, todo |-> text, completed |-> FALSE] : text \in Texts}

\* positions of the TodoItem components of a render
Positions == 1..MaxTodos

QueuedCall(op, id, todo) == [op |-> op, id |-> id, todo |-> todo]

\* the function a mutator passes to setTodos, applied to prev
applyUpdater(prev, call, t) ==
    CASE call.op = "addTodo" -> addTodoUpdater(prev, t, call.todo)
      [] call.op = "updatedTodo" -> updatedTodoUpdater(prev, call.id, call.todo)
      [] call.op = "deleteTodo" -> deleteTodoUpdater(prev, call.id)
      [] call.op = "toggleComplete" -> toggleCompleteUpdater(prev, call.id)

updaterThrows(prev, call) ==
    call.op = "deleteTodo" /\ deleteTodoThrows(prev, call.id)

\* a variant in which a mutator computes from the todos of its render:
\* setTodos(f(todos)) instead of setTodos((prev) => f(prev))
updaterArgument_Closure(prev, rendered) == rendered

\* setTodos((prev) => ...): the queued function receives the state left by
\* the functions queued before it
updaterArgument(prev, rendered) == prev

\* the render of App runs the queued functions first to last; an exception
\* in one of them leaves the render without a result
RECURSIVE processQueue(_, _, _, _)
processQueue(prev, rendered, calls, t) ==
    IF calls = <<>> THEN [todos |-> prev, err |-> "none"]
    ELSE IF updaterThrows(updaterArgument(prev, rendered), Head(calls))
    THEN [todos |-> rendered, err |-> "ReferenceError"]
    ELSE processQueue(applyUpdater(updaterArgument(prev, rendered), Head(calls), t),
                      rendered, Tail(calls), t)

BatchInit ==
    /\ committed = <<>>
    /\ queue = <<>>
    /\ renderErr = "none"

AddsQueued == Cardinality({i \in DOMAIN queue : queue[i].op = "addTodo"})

enqueue(call) ==
    /\ renderErr = "none"
    /\ Len(queue) < MaxBatch
    /\ queue' = Append(queue, call)
    /\ UNCHANGED <<committed, renderErr>>
    /\ UNCHANGED notBatchVars

\* TodoForm.add
queuedAddTodo(todo) ==
    /\ Len(committed) + AddsQueued < MaxTodos
    /\ enqueue(QueuedCall("addTodo", NoId, todo))

\* TodoItem.editTodo: updatedTodo(todo.id, { ...todo, todo: todoMsg })
queuedUpdatedTodo(i, todoMsg) ==
    /\ i \in DOMAIN committed
    /\ enqueue(QueuedCall("updatedTodo", committed[i].id,
                          [committed[i] EXCEPT !.todo = todoMsg]))

\* TodoItem: onClick={() => deleteTodo(todo.id)}
queuedDeleteTodo(i) ==
    /\ i \in DOMAIN committed
    /\ enqueue(QueuedCall("deleteTodo", committed[i].id, NoTodo))

\* TodoItem.toggleCompleted: toggleComplete(todo.id)
queuedToggleComplete(i) ==
    /\ i \in DOMAIN committed
    /\ enqueue(QueuedCall("toggleComplete", committed[i].id, NoTodo))

\* App renders again: the queued functions produce the next todos
renderApp ==
    /\ renderErr = "none"
    /\ queue # <<>>
    /\ LET result == processQueue(committed, committed, queue, now)
       IN /\ committed' = result.todos
          /\ renderErr' = result.err
    /\ queue' = <<>>
    /\ UNCHANGED notBatchVars

BatchNext ==
    \/ Tick
    \/ \E todo \in FormPayloads : queuedAddTodo(todo)
    \/ \E i \in Positions, todoMsg \in Texts : queuedUpdatedTodo(i, todoMsg)
    \/ \E i \in Positions : queuedDeleteTodo(i)
    \/ \E i \in Positions : queuedToggleComplete(i)
    \/ renderApp

(***************************************************************************)
(* Context todo store on the heap: arrays and todo objects with identity   *)
(***************************************************************************)
\* references of the arrays in use at one time: the one of the state, the
\* one a consumer holds, the one under construction
ArrayRefs == 1..3
\* references of the todo objects those arrays can hold
ObjRefs == 1..(3 * MaxTodos)

\* the contents of an array: its records, their fields, their order
Deep(arrs, objs, ref) == [i \in 1..Len(arrs[ref]) |-> objs[arrs[ref][i]]]

FreshArray(arrs) == CHOOSE r \in ArrayRefs : r \notin DOMAIN arrs

\* the i-th unused object reference
FreshObject(objs, i) ==
    LET free == ObjRefs \ DOMAIN objs
    IN CHOOSE r \in free : Cardinality({q \in free : q < r}) = i - 1

\* a variant in which the updater writes its result into the array it
\* received (prev.unshift(...), prev[i] = ...; return prev)
resultArray_InPlace(prevRef, fresh) == prevRef

\* [.., ...prev] and prev.map(..) build a new array
resultArray(prevRef, fresh) == fresh

\* the heap after the garbage collection: the arrays the state or a consumer
\* refers to and the objects they hold
Reachable(arrs, objs, roots) ==
    LET keptArrays == [r \in roots |-> arrs[r]]
        keptObjs == UNION {{keptArrays[r][i] : i \in 1..Len(keptArrays[r])} : r \in roots}
    IN [arrays |-> keptArrays, objects |-> [o \in keptObjs |-> objs[o]]]

\* objs extended with the objects created at the given positions
WithObjects(objs, created) ==
    [o \in DOMAIN objs \cup {FreshObject(objs, i) : i \in DOMAIN created} |->
        IF o \in DOMAIN objs THEN objs[o]
        ELSE created[CHOOSE i \in DOMAIN created : FreshObject(objs, i) = o]]

HeapInit ==
    /\ arrays = [r \in {1} |-> <<>>]
    /\ objects = [o \in {} |-> NoTodo]
    /\ todosRef = 1
    /\ snapshot = [ref |-> 1, value |-> <<>>]
    /\ heapErr = "none"
    /\ heapLast = [op |-> "init", n |-> 0, beforeRef |-> 1, before |-> <<>>]

\* setTodos(updater): the state refers to the array the updater returns
heapSetTodos(op, contents, objs) ==
    LET target == resultArray(todosRef, FreshArray(arrays))
        arrs == [r \in DOMAIN arrays \cup {target} |->
                    IF r = target THEN contents ELSE arrays[r]]
        heap == Reachable(arrs, objs, {target, snapshot.ref})
    IN /\ heapErr = "none"
       /\ heapLast.n < MaxHeapCalls
       /\ arrays' = heap.arrays
       /\ objects' = heap.objects
       /\ todosRef' = target
       /\ heapLast' = [op |-> op, n |-> heapLast.n + 1, beforeRef |-> todosRef,
                       before |-> Deep(arrays, objects, todosRef)]
       /\ UNCHANGED <<snapshot, heapErr>>
       /\ UNCHANGED notHeapVars

\* [{ id: Date.now(), ...todo }, ...prev]
heapAddTodo(todo) ==
    /\ Len(arrays[todosRef]) < MaxTodos
    /\ LET created == <<[id |-> now, todo |-> todo.todo, completed |-> todo.completed]>>
       IN heapSetTodos("addTodo",
                       <<FreshObject(objects, 1)>> \o arrays[todosRef],
                       WithObjects(objects, created))

\* the todo at position i of the consumer's snapshot
SnapshotTodo(i) == objects[arrays[snapshot.ref][i]]

\* TodoItem.editTodo: updatedTodo(todo.id, { ...todo, todo: todoMsg })
\* prev.map(prevTodo => prevTodo.id === id ? todo : prevTodo)
heapUpdatedTodo(i, todoMsg) ==
    /\ i \in DOMAIN arrays[snapshot.ref]
    /\ LET prev == arrays[todosRef]
           created == <<[SnapshotTodo(i) EXCEPT !.todo = todoMsg]>>
       IN heapSetTodos("updatedTodo",
              [k \in 1..Len(prev) |->
                  IF objects[prev[k]].id = SnapshotTodo(i).id
                  THEN FreshObject(objects, 1) ELSE prev[k]],
              WithObjects(objects, created))

\* TodoItem: deleteTodo(todo.id)
heapDeleteTodo(i) ==
    /\ i \in DOMAIN arrays[snapshot.ref]
    /\ IF deleteTodoThrows(Deep(arrays, objects, todosRef), SnapshotTodo(i).id)
       THEN /\ heapErr = "none"
            /\ heapLast.n < MaxHeapCalls
            /\ heapErr' = "ReferenceError"
            /\ heapLast' = [op |-> "deleteTodo", n |-> heapLast.n + 1,
                            beforeRef |-> todosRef,
                            before |-> Deep(arrays, objects, todosRef)]
            /\ UNCHANGED <<arrays, objects, todosRef, snapshot>>
            /\ UNCHANGED notHeapVars
       ELSE heapSetTodos("deleteTodo", arrays[todosRef], objects)

\* TodoItem.toggleCompleted: toggleComplete(todo.id)
\* prev.map(prevTodo => prevTodo.id === id
\*     ? { ...prevTodo, completed: !prevTodo.completed } : prevTodo)
heapToggleComplete(i) ==
    /\ i \in DOMAIN arrays[snapshot.ref]
    /\ LET prev == arrays[todosRef]
           created == [k \in 1..Len(prev) |->
                          [objects[prev[k]] EXCEPT !.completed = ~objects[prev[k]].completed]]
       IN heapSetTodos("toggleComplete",
              [k \in 1..Len(prev) |->
                  IF objects[prev[k]].id = SnapshotTodo(i).id
                  THEN FreshObject(objects, k) ELSE prev[k]],
              WithObjects(objects, created))

\* a consumer renders: it receives the array the state refers to
heapRender ==
    /\ heapErr = "none"
    /\ snapshot.ref # todosRef
    /\ snapshot' = [ref |-> todosRef, value |-> Deep(arrays, objects, todosRef)]
    /\ LET heap == Reachable(arrays, objects, {todosRef})
       IN arrays' = heap.arrays /\ objects' = heap.objects
    /\ UNCHANGED <<todosRef, heapErr, heapLast>>
    /\ UNCHANGED notHeapVars

HeapNext ==
    \/ Tick
    \/ \E todo \in FormPayloads : heapAddTodo(todo)
    \/ \E i \in Positions, todoMsg \in Texts : heapUpdatedTodo(i, todoMsg)
    \/ \E i \in Positions : heapDeleteTodo(i)
    \/ \E i \in Positions : heapToggleComplete(i)
    \/ heapRender

(***************************************************************************)
(* Page reload: the process of an application ends and starts again        *)
(***************************************************************************)
\* the applications that keep a Context store
Pages == {"todo", "theme", "user"}

\* a variant that starts from the value the previous process left in a
\* storage (useState(() => JSON.parse(localStorage.getItem(...))))
reloaded_FromStorage(initial, stored) == stored

\* useState(initial): a new process starts from the initial value; nothing
\* is written to or read from a storage
reloaded(initial, stored) == initial

PageInit == page = "none"

\* the browser opens one of the applications
loadPage(p) ==
    /\ page = "none"
    /\ page' = p
    /\ UNCHANGED notPageVars

\* the events of the todo application
todoPageTick == page = "todo" /\ Tick
todoPageAddTodo == page = "todo" /\ \E todo \in Payloads : addTodo(todo)
todoPageUpdatedTodo ==
    page = "todo" /\ \E id \in Ids, todo \in TodoRecords : updatedTodo(id, todo)
todoPageDeleteTodo == page = "todo" /\ \E id \in Ids : deleteTodo(id)
todoPageToggleComplete == page = "todo" /\ \E id \in Ids : toggleComplete(id)

\* the todo application is reloaded: App mounts again with useState([])
reloadTodo ==
    /\ page = "todo"
    /\ todos' = reloaded(<<>>, todos)
    /\ err' = "none"
    /\ last' = [op |-> "reload", id |-> NoId, todo |-> NoTodo, before |-> todos,
                twice |-> FALSE, before2 |-> <<>>]
    /\ UNCHANGED now
    /\ UNCHANGED notTodoVars

\* the events of the theme application
themePageLightTheme == page = "theme" /\ lightTheme
themePageDarkTheme == page = "theme" /\ darkTheme
themePageOnChangeBtn == page = "theme" /\ \E checked \in BOOLEAN : onChangeBtn(checked)
themePageEffect == page = "theme" /\ themeEffect

\* the theme application is reloaded: App mounts again with
\* useState("light") on a new document, and its effect is due
reloadTheme ==
    /\ page = "theme"
    /\ themeMode' = reloaded(initialThemeMode, themeMode)
    /\ htmlClass' = {}
    /\ effectDue' = TRUE
    /\ themeCalls' = <<>>
    /\ themeLast' = [via |-> "reload", checked |-> FALSE, before |-> themeMode]
    /\ UNCHANGED notThemeVars

\* the events of the user application
userPageSetUsername == page = "user" /\ \E value \in Usernames : setUsername(value)
userPageSetPassword == page = "user" /\ \E value \in Passwords : setPassword(value)
userPageHandleSubmit == page = "user" /\ handleSubmit
userPageRenderProvider == page = "user" /\ renderProvider
userPageRenderConsumer == page = "user" /\ \E c \in Consumers : renderConsumer(c)

\* the user application is reloaded: UserContextProvider, Login and Profile
\* mount again with useState({}) and useState("")
reloadUser ==
    /\ page = "user"
    /\ user' = reloaded(EmptyUser, user)
    /\ pendingUser' = <<>>
    /\ seen' = [c \in Consumers |-> contextValue(user')]
    /\ profileText' = Profile(contextValue(user'))
    /\ loginUsername' = ""
    /\ loginPassword' = ""
    /\ submitted' = <<>>
    /\ userLast' = [op |-> "reload", value |-> user]
    /\ UNCHANGED notUserVars

ReloadNext ==
    \/ \E p \in Pages : loadPage(p)
    \/ todoPageTick
    \/ todoPageAddTodo
    \/ todoPageUpdatedTodo
    \/ todoPageDeleteTodo
    \/ todoPageToggleComplete
    \/ reloadTodo
    \/ themePageLightTheme
    \/ themePageDarkTheme
    \/ themePageOnChangeBtn
    \/ themePageEffect
    \/ reloadTheme
    \/ userPageSetUsername
    \/ userPageSetPassword
    \/ userPageHandleSubmit
    \/ userPageRenderProvider
    \/ userPageRenderConsumer
    \/ reloadUser

(***************************************************************************)
(* useCurrencyInfo: the requesting component is torn down                  *)
(***************************************************************************)
\* the requests whose promise chain has not run to its end
InFlight(requests) ==
    {i \in DOMAIN requests : requests[i].stage \in {"pending", "responded"}}

\* a variant whose effect returns a cleanup that makes the chains of the
\* fetches in flight skip their setData
effectCleanup_Ignores(requests) ==
    [i \in DOMAIN requests |->
        IF i \in InFlight(requests)
        THEN [requests[i] EXCEPT !.stage = "ignored"]
        ELSE requests[i]]

\* useEffect(() => { fetch(...)... }, [currency]): the effect returns no
\* cleanup function, so a teardown leaves the fetches in flight as they are
effectCleanup(requests) == requests

TeardownInit ==
    /\ mounted = TRUE
    /\ inFlightAtTeardown = {}

\* a render of the mounted component with a new currency argument
mountedChangeCurrency ==
    /\ mounted
    /\ Len(reqs) < MaxInFlight
    /\ \E c \in Currencies : changeCurrency(c)

\* the fetches issued before a teardown
TeardownReqIds == 1..MaxInFlight

\* the component is torn down: React runs the cleanup of its effects
unmount ==
    /\ mounted
    /\ mounted' = FALSE
    /\ inFlightAtTeardown' = InFlight(reqs)
    /\ reqs' = effectCleanup(reqs)
    /\ UNCHANGED <<currency, data, unhandled, lastSettle>>
    /\ UNCHANGED notCurrencyTeardownVars

\* the network answers or fails
fetchSettles(i) ==
    \/ fetchRejects(i)
    \/ \E status \in Statuses, body \in Bodies : responseArrives(i, status, body)

TeardownNext ==
    \/ mountedChangeCurrency
    \/ unmount
    \/ \E i \in TeardownReqIds : fetchRejects(i)
    \/ \E i \in TeardownReqIds, status \in Statuses, body \in Bodies :
          responseArrives(i, status, body)
    \/ \E i \in TeardownReqIds : bodyRead(i)

(***************************************************************************)
(* TodoForm: the input and the submit handler add                          *)
(***************************************************************************)
\* what the input can hold
FormInputs == Texts \cup {""}

\* a variant of add without the test of the input
rejects_Never(input) == FALSE

\* if (!todo) return;
rejects(input) == input = ""

FormInit ==
    /\ formInput = ""
    /\ formTodos = <<>>
    /\ formLast = [op |-> "init", input |-> "", before |-> <<>>, calls |-> 0]

\* onChange={(e) => setTodo(e.target.value)}
setTodo(value) ==
    /\ value # formInput
    /\ formInput' = value
    /\ formLast' = [op |-> "setTodo", input |-> formInput, before |-> formTodos,
                    calls |-> 0]
    /\ UNCHANGED formTodos
    /\ UNCHANGED notFormVars

\* add = (e) => { e.preventDefault(); if (!todo) return;
\*                addTodo({ todo, completed: false }); setTodo("") }
add ==
    /\ IF rejects(formInput)
       THEN /\ formLast' = [op |-> "add", input |-> formInput,
                            before |-> formTodos, calls |-> 0]
            /\ UNCHANGED <<formInput, formTodos>>
       ELSE /\ Len(formTodos) < MaxTodos
            /\ formTodos' = addTodoUpdater(formTodos, now,
                   [id |-> NoId, todo |-> formInput, completed |-> FALSE])
            /\ formInput' = ""
            /\ formLast' = [op |-> "add", input |-> formInput,
                            before |-> formTodos, calls |-> 1]
    /\ UNCHANGED notFormVars

FormNext ==
    \/ Tick
    \/ \E value \in FormInputs : setTodo(value)
    \/ add

(***************************************************************************)
(* TodoItem: edit mode, text input, edit button, checkbox, delete button   *)
(***************************************************************************)
\* the record the item of an id was rendered with (key={todo.id})
TodoOf(coll, id) == coll[CHOOSE i \in 1..Len(coll) : coll[i].id = id]

\* a variant of the edit button without the test of the completed flag
editButtonIgnored_Never(todo) == FALSE

\* onClick: if (todo.completed) return;   disabled={todo.completed}
editButtonIgnored(todo) == todo.completed

ItemEvent(op, id, calls) ==
    [op |-> op, id |-> id, calls |-> calls,
     completed |-> TodoOf(itemTodos, id).completed,
     editable |-> isTodoEditable[id]]

ItemInit ==
    /\ itemTodos = <<>>
    /\ isTodoEditable = [id \in Ids |-> FALSE]
    /\ todoMsgOf = [id \in Ids |-> ""]
    /\ itemErr = "none"
    /\ itemLast = [op |-> "init", id |-> NoId, calls |-> 0,
                   completed |-> FALSE, editable |-> FALSE]

\* TodoForm adds a todo and App renders a TodoItem for it:
\* useState(false), useState(todo.todo)
itemAddTodo(text) ==
    /\ itemErr = "none"
    /\ Len(itemTodos) < MaxItems
    /\ ~HasId(itemTodos, now)
    /\ itemTodos' = addTodoUpdater(itemTodos, now,
           [id |-> NoId, todo |-> text, completed |-> FALSE])
    /\ isTodoEditable' = [isTodoEditable EXCEPT ![now] = FALSE]
    /\ todoMsgOf' = [todoMsgOf EXCEPT ![now] = text]
    /\ itemLast' = [op |-> "addTodo", id |-> now, calls |-> 0,
                    completed |-> FALSE, editable |-> FALSE]
    /\ UNCHANGED itemErr
    /\ UNCHANGED notItemVars

\* onChange={(e) => setTodoMsg(e.target.value)} of the text input, which is
\* readOnly={!isTodoEditable}
setTodoMsg(id, value) ==
    /\ itemErr = "none"
    /\ HasId(itemTodos, id)
    /\ isTodoEditable[id]
    /\ value # todoMsgOf[id]
    /\ todoMsgOf' = [todoMsgOf EXCEPT ![id] = value]
    /\ itemLast' = ItemEvent("setTodoMsg", id, 0)
    /\ UNCHANGED <<itemTodos, isTodoEditable, itemErr>>
    /\ UNCHANGED notItemVars

\* the edit button: if (todo.completed) return;
\* if (isTodoEditable) editTodo() else setIsTodoEditable((prev) => !prev)
\* editTodo: updatedTodo(todo.id, { ...todo, todo: todoMsg });
\*           setIsTodoEditable(false)
editButton(id) ==
    /\ itemErr = "none"
    /\ HasId(itemTodos, id)
    /\ LET todo == TodoOf(itemTodos, id)
       IN IF editButtonIgnored(todo)
          THEN /\ itemLast' = ItemEvent("editButton", id, 0)
               /\ UNCHANGED <<itemTodos, isTodoEditable>>
          ELSE IF isTodoEditable[id]
          THEN /\ itemTodos' = updatedTodoUpdater(itemTodos, id,
                                   [todo EXCEPT !.todo = todoMsgOf[id]])
               /\ isTodoEditable' = [isTodoEditable EXCEPT ![id] = FALSE]
               /\ itemLast' = ItemEvent("editButton", id, 1)
          ELSE /\ isTodoEditable' = [isTodoEditable EXCEPT ![id] = ~isTodoEditable[id]]
               /\ itemLast' = ItemEvent("editButton", id, 0)
               /\ UNCHANGED itemTodos
    /\ UNCHANGED <<todoMsgOf, itemErr>>
    /\ UNCHANGED notItemVars

\* the checkbox: toggleCompleted = () => { toggleComplete(todo.id) }
toggleCompleted(id) ==
    /\ itemErr = "none"
    /\ HasId(itemTodos, id)
    /\ itemTodos' = toggleCompleteUpdater(itemTodos, id)
    /\ itemLast' = ItemEvent("toggleCompleted", id, 0)
    /\ UNCHANGED <<isTodoEditable, todoMsgOf, itemErr>>
    /\ UNCHANGED notItemVars

\* the delete button: onClick={() => deleteTodo(todo.id)}
deleteButton(id) ==
    /\ itemErr = "none"
    /\ HasId(itemTodos, id)
    /\ IF deleteTodoThrows(itemTodos, id)
       THEN /\ itemErr' = "ReferenceError"
            /\ UNCHANGED itemTodos
       ELSE /\ itemTodos' = deleteTodoUpdater(itemTodos, id)
            /\ UNCHANGED itemErr
    /\ itemLast' = ItemEvent("deleteButton", id, 0)
    /\ UNCHANGED <<isTodoEditable, todoMsgOf>>
    /\ UNCHANGED notItemVars

ItemNext ==
    \/ Tick
    \/ \E text \in Texts : itemAddTodo(text)
    \/ \E id \in Ids, value \in Texts : setTodoMsg(id, value)
    \/ \E id \in Ids : editButton(id)
    \/ \E id \in Ids : toggleCompleted(id)
    \/ \E id \in Ids : deleteButton(id)

(***************************************************************************)
(* Properties                                                              *)
(***************************************************************************)

\* the record of coll at position i, once the records with the given id
\* before it are taken out, sits at this position
PositionWithout(coll, id, i) ==
    i - Cardinality({j \in 1..i : coll[j].id = id})

\* after is before with exactly the records of the given id taken out and
\* the others unchanged in the same order
RemovedFrom(before, id, after) ==
    /\ Len(after) = Cardinality({i \in 1..Len(before) : before[i].id # id})
    /\ \A i \in 1..Len(before) :
          before[i].id # id =>
              /\ PositionWithout(before, id, i) \in 1..Len(after)
              /\ after[PositionWithout(before, id, i)] = before[i]
    /\ (~HasId(before, id) => after = before)

C2_DeleteRemoves ==
    last.op = "deleteTodo" =>
        /\ err = "none"
        /\ RemovedFrom(last.before, last.id, todos)

\* C3: in every reachable state the ids of the records of the todo
\* collection are pairwise distinct
C3_IdsPairwiseDistinct == DistinctIds(todos)

\* C4: updatedTodo(id, patch) leaves the collection unchanged when no record
\* has the id; otherwise it replaces the records of that id by the patch and
\* every other record, the length and the order are untouched
C4_UpdateFrame ==
    last.op = "updatedTodo" =>
        /\ Len(todos) = Len(last.before)
        /\ \A i \in 1..Len(last.before) :
              IF last.before[i].id = last.id
              THEN todos[i] = last.todo
              ELSE todos[i] = last.before[i]
        /\ (~HasId(last.before, last.id) => todos = last.before)

\* C4 witness: an update hit one record of a two-record collection and
\* changed it, the other record having another id
C4_Witness ==
    /\ last.op = "updatedTodo"
    /\ Len(todos) = 2
    /\ HasId(last.before, last.id)
    /\ \E i \in 1..2 : last.before[i].id # last.id
    /\ todos # last.before

C6_RemoveFilters ==
    lastAction.type = "REMOVE" =>
        RemovedFrom(lastAction.before, lastAction.id, state)

\* C6 witness: REMOVE took a record out of the middle of the collection
C6_Witness ==
    /\ lastAction.type = "REMOVE"
    /\ Len(lastAction.before) >= 3
    /\ lastAction.before[2].id = lastAction.id
    /\ Len(state) = Len(lastAction.before) - 1

\* C7: toggleComplete(id) applied twice in succession gives back the
\* collection it started from
C7_ToggleTwice ==
    (last.op = "toggleComplete" /\ last.twice) => todos = last.before2

\* C7 witness: the same id was toggled twice and a record has that id
C7_Witness ==
    /\ last.op = "toggleComplete"
    /\ last.twice
    /\ HasId(todos, last.id)
    /\ last.before # todos

\* C8: toggleComplete(id) negates the completed flag of the records of that
\* id and changes nothing else: their id and text, every other record, the
\* length and the order stay, and an id in no record changes nothing
C8_ToggleFrame ==
    last.op = "toggleComplete" =>
        /\ Len(todos) = Len(last.before)
        /\ \A i \in 1..Len(last.before) :
              IF last.before[i].id = last.id
              THEN /\ todos[i].completed = ~last.before[i].completed
                   /\ todos[i].id = last.before[i].id
                   /\ todos[i].todo = last.before[i].todo
              ELSE todos[i] = last.before[i]
        /\ (~HasId(last.before, last.id) => todos = last.before)

\* C8 witness: a toggle hit one record of a two-record collection whose
\* other record has another id
C8_Witness ==
    /\ last.op = "toggleComplete"
    /\ Len(todos) = 2
    /\ HasId(last.before, last.id)
    /\ \E i \in 1..2 : last.before[i].id # last.id

\* C9: when the fetch rejects or the body is not JSON, the hook ends with
\* the empty mapping as its data, whatever it held before, and nothing is
\* left uncaught
C9_FailureGivesEmpty ==
    lastSettle.kind \in {"networkError", "malformedJSON"} =>
        /\ data = EmptyMapping
        /\ ~unhandled

\* C9 witness: a fetch rejected while the hook held the rates of an earlier
\* fetch
C9_Witness ==
    /\ lastSettle.kind = "networkError"
    /\ lastSettle.before.defined
    /\ lastSettle.before.rates # {}
    /\ data = EmptyMapping

\* C10: when the request completes with a non-2xx status, the data becomes
\* the empty mapping and nothing is left uncaught
C10_Non2xxGivesEmpty ==
    (lastSettle.kind \in {"malformedJSON", "nullBody", "parsed"}
        /\ ~Is2xx(lastSettle.status)) =>
        /\ data = EmptyMapping
        /\ ~unhandled

\* C11: with no enclosing TodoProvider, useTodo yields the default value,
\* whose todos hold the single sample record with id 1 and completed false;
\* invoking the default mutators any number of times raises no error and
\* leaves the observed todos unchanged
C11_DefaultInert ==
    /\ defaultErr = "none"
    /\ Len(defaultTodos) = 1
    /\ defaultTodos[1].id = 1
    /\ defaultTodos[1].completed = FALSE
    /\ defaultTodos = TodoContextDefault.todos

\* C11 witness: several default mutators were invoked, the last one an
\* addTodo
C11_Witness ==
    /\ defaultLast.calls >= 2
    /\ defaultLast.op = "addTodo"

\* C12: a UserContext consumer (Login or Profile) evaluated outside
\* UserContextProvider gets an inert default and does not throw
C12_OutsideNoThrow ==
    outsideLast \in {"Login", "Profile"} => outsideErr = "none"

\* the mode the named setter sets
ModeOf(setter) == IF setter = "darkTheme" THEN "dark" ELSE "light"

\* C13: the theme store starts at light, and after any sequence of setter
\* calls themeMode is the value of the last setter called, whatever the
\* previous value
C13_LastSetterWins ==
    IF themeCalls = <<>>
    THEN themeMode = "light"
    ELSE themeMode = ModeOf(themeCalls[Len(themeCalls)])

\* C13 witness: dark was set from light and light was set again from dark
C13_Witness ==
    /\ Len(themeCalls) >= 3
    /\ themeCalls[Len(themeCalls) - 1] = "darkTheme"
    /\ themeCalls[Len(themeCalls)] = "lightTheme"
    /\ themeLast.before = "dark"
    /\ themeMode = "light"

\* C14: themeMode is always one of the declared variants light and dark, it
\* changes only in a step that invokes a setter, and the toggle button
\* invokes darkTheme when checked and lightTheme when unchecked
C14_VariantsAndSetters ==
    /\ [](themeMode \in ThemeVariants)
    /\ [](themeLast.via = "ThemeBtn" =>
            themeCalls[Len(themeCalls)] =
                IF themeLast.checked THEN "darkTheme" ELSE "lightTheme")
    /\ [][themeMode' # themeMode =>
            /\ Len(themeCalls') = Len(themeCalls) + 1
            /\ themeMode' = ModeOf(themeCalls'[Len(themeCalls')])]_vars

\* C14 witness: the toggle button, checked, switched the mode from light to
\* dark
C14_Witness ==
    /\ themeLast.via = "ThemeBtn"
    /\ themeLast.checked
    /\ themeLast.before = "light"
    /\ themeMode = "dark"

\* C16: after any mutator invocation every mounted consumer of the user
\* store (Login and Profile) eventually has rendered with the store's
\* current state; none stays on a superseded snapshot for ever
\* (a queued setUser call is eventually applied to the store, and a consumer
\* whose snapshot differs from the store eventually renders with the store)
C16_ConsumersCatchUp ==
    /\ (pendingUser # <<>>) ~> (pendingUser = <<>>)
    /\ \A c \in Consumers : (seen[c] # user) ~> (seen[c] = user)

\* C16 witness: after a submit both consumers have rendered with the new
\* user
C16_Witness ==
    /\ userLast.op = "handleSubmit"
    /\ pendingUser = <<>>
    /\ user = userLast.value
    /\ \A c \in Consumers : seen[c] = user

\* the { username, password } objects submitted so far
SubmittedUsers == {submitted[i] : i \in DOMAIN submitted}

\* C17: every user value a consumer observes, and every value the store
\* holds, is the initial state or the complete value of one submit: never
\* the username of one login with the password of another
C17_NoTornUser ==
    /\ user \in {EmptyUser} \cup SubmittedUsers
    /\ \A c \in Consumers : seen[c] \in {EmptyUser} \cup SubmittedUsers

\* C17 witness: two logins differing in username and in password were
\* submitted and Profile rendered with one of them
C17_Witness ==
    /\ \E a, b \in SubmittedUsers :
          a.username # b.username /\ a.password # b.password
    /\ seen["Profile"] \in SubmittedUsers
    /\ seen["Profile"] = user

\* Profile has rendered the outcome of the last submit
SubmitRendered ==
    /\ userLast.op = "handleSubmit"
    /\ pendingUser = <<>>
    /\ seen["Profile"] = user

\* C19 as stated: after any Login submit the store holds the submitted
\* username and password and Profile displays Welcome and the submitted
\* username; while no user is logged in Profile displays Please Login
C19_AnySubmitWelcomes ==
    /\ SubmitRendered =>
          /\ user = userLast.value
          /\ profileText = <<"Welcome ", userLast.value.username>>
    /\ seen["Profile"] = EmptyUser => profileText = <<"Please Login">>

\* C19 amended: after any Login submit the store holds the submitted
\* username and password; Profile displays Welcome and the submitted
\* username when that username is not empty, and Please Login when it is
\* empty or no user is logged in
C19_NonEmptySubmitWelcomes ==
    /\ SubmitRendered =>
          /\ user = userLast.value
          /\ profileText = IF userLast.value.username = ""
                           THEN <<"Please Login">>
                           ELSE <<"Welcome ", userLast.value.username>>
    /\ seen["Profile"] = EmptyUser => profileText = <<"Please Login">>

\* C19 witness: a login with a username and an empty password was submitted
\* and Profile greets that username
C19_Witness ==
    /\ SubmitRendered
    /\ userLast.value.username = "ann"
    /\ userLast.value.password = ""
    /\ profileText = <<"Welcome ", "ann">>

\* the calls of a batch applied one after another, each to the result of the
\* previous one
RECURSIVE SequentialComposition(_, _, _)
SequentialComposition(base, calls, t) ==
    IF calls = <<>> THEN base
    ELSE applyUpdater(
             SequentialComposition(base, SubSeq(calls, 1, Len(calls) - 1), t),
             calls[Len(calls)], t)

\* the render that ends a batch of several calls
BatchRendered == Len(queue) > 1 /\ queue' = <<>>

\* C15: whatever mutators (addTodo, updatedTodo, deleteTodo, toggleComplete)
\* were invoked since the last render, the next render holds their sequential
\* composition in invocation order, and no invocation's effect is lost
C15_BatchInOrder ==
    [][BatchRendered =>
          /\ renderErr' = "none"
          /\ committed' = SequentialComposition(committed, queue, now)]_vars

\* the same for the batches that hold no deleteTodo
BatchWithoutDeleteInOrder ==
    [][(BatchRendered /\ \A i \in DOMAIN queue : queue[i].op # "deleteTodo") =>
          /\ renderErr' = "none"
          /\ committed' = SequentialComposition(committed, queue, now)]_vars

HeapMutators == {"addTodo", "updatedTodo", "deleteTodo", "toggleComplete"}

\* C18: the array a consumer received still has the records, fields and
\* order it had when it was handed over, whatever mutators were invoked
\* since; and when a mutator changed the contents of the store, the store
\* refers to another array than before the call
C18_SnapshotsUntouched ==
    /\ Deep(arrays, objects, snapshot.ref) = snapshot.value
    /\ (heapLast.op \in HeapMutators
          /\ Deep(arrays, objects, todosRef) # heapLast.before)
       => todosRef # heapLast.beforeRef

\* C18 witness: a consumer holds a non-empty collection and toggleComplete
\* changed the contents of the store after it was handed over
C18_Witness ==
    /\ heapLast.op = "toggleComplete"
    /\ snapshot.ref = heapLast.beforeRef
    /\ snapshot.value # <<>>
    /\ Deep(arrays, objects, todosRef) # snapshot.value

ThemeReloadedFromDark ==
    themeLast.via = "reload" /\ themeLast.before = "dark" /\ themeMode = "light"
TodoReloadedFromTodos ==
    last.op = "reload" /\ last.before # <<>> /\ todos = <<>>

\* every fetch issued so far was answered with the rates of its currency and
\* its chain has run to the end
AllAnsweredWithRates ==
    \A i \in DOMAIN reqs : reqs[i].stage = "settled" /\ reqs[i].body = "rates"

\* C25: once every outstanding response has arrived, the data is the rates
\* of the most recently requested currency, whatever the order in which the
\* responses arrived
C25_LatestCurrencyWins ==
    AllAnsweredWithRates => data = Mapping(RatesOf(currency))

\* C26: the value useCurrencyInfo returns is always a mapping (possibly
\* empty) and never undefined, also after a response that parses as JSON but
\* carries no rates field
C26_DataIsMapping == data.defined

\* the request issued for the current currency argument
Latest(requests) == requests[Len(requests)]

\* C30: from a change of the currency argument until the request issued for
\* the new currency settles, the data keeps the value it had before the
\* change
C30_DataKeptWhilePending ==
    [][(Len(reqs') > 1 /\ Latest(reqs').stage # "settled") => data' = data]_vars

\* the same while no request issued for an earlier currency is in flight
DataKeptWhileOnlyLatestPending ==
    [][(Len(reqs') > 1 /\ Latest(reqs').stage # "settled"
          /\ \A i \in 1..(Len(reqs') - 1) : reqs[i].stage = "settled")
       => data' = data]_vars

\* C21: a fetch in flight when the component is torn down is not cancelled:
\* it stays in flight, and when its response or failure arrives its chain
\* runs to the end, where setData is called
C21_NoCancellation ==
    \A i \in TeardownReqIds :
        (~mounted /\ i \in inFlightAtTeardown)
            ~> (~mounted /\ i \in DOMAIN reqs /\ reqs[i].stage = "settled")

\* C21 witness: a fetch was in flight at the teardown and its response
\* has since been stored with setData
C21_Witness ==
    /\ ~mounted
    /\ \E i \in inFlightAtTeardown :
          /\ reqs[i].stage = "settled"
          /\ reqs[i].body = "rates"
          /\ lastSettle.kind = "parsed"
          /\ data = Mapping(RatesOf(reqs[i].cur))
          /\ data # lastSettle.before

\* C24: whenever the theme effect has run for the current themeMode, the
\* html element carries exactly one of the classes light and dark, the one
\* equal to themeMode; and after setter calls the effect eventually runs, so
\* that the class equals the themeMode the calls left
C24_ClassFollowsMode ==
    /\ [](~effectDue => htmlClass = {themeMode})
    /\ effectDue ~> (~effectDue /\ htmlClass = {themeMode})

\* C24 witness: after a switch to dark and at least one more setter call the
\* effect has run and the html element carries dark
C24_Witness ==
    /\ Len(themeCalls) >= 2
    /\ ~effectDue
    /\ themeMode = "dark"
    /\ htmlClass = {"dark"}
    /\ \E i \in DOMAIN themeCalls : ModeOf(themeCalls[i]) = "light"

\* C27: the record addTodo creates carries the id generated at the time of
\* the call, for every payload, also one that has an id field of its own
C27_AddedIdIsGenerated ==
    [][Len(todos') = Len(todos) + 1 => todos'[1].id = now]_vars

\* the same for the payloads without an id field, the ones TodoForm passes
AddedIdIsGeneratedWithoutOwnId ==
    [][(Len(todos') = Len(todos) + 1 /\ last'.todo.id = NoId)
          => todos'[1].id = now]_vars

\* C28: updatedTodo(id, todo) leaves the set of ids of the collection as it
\* was: whatever replacement is passed, the record at every matched position
\* has the id argument afterwards
C28_UpdateKeepsIds ==
    last.op = "updatedTodo" =>
        /\ IdsOf(todos) = IdsOf(last.before)
        /\ \A i \in 1..Len(last.before) :
              last.before[i].id = last.id => todos[i].id = last.id

\* the same for the replacements that carry the id argument, the ones
\* TodoItem.editTodo passes
UpdateKeepsIdsOfOwnId ==
    (last.op = "updatedTodo" /\ last.todo.id = last.id) =>
        /\ IdsOf(todos) = IdsOf(last.before)
        /\ \A i \in 1..Len(last.before) :
              last.before[i].id = last.id => todos[i].id = last.id

\* C22: submitting TodoForm with an empty input leaves the collection and
\* the input unchanged; submitting with a non-empty input invokes addTodo
\* exactly once, with that text and completed false, and then resets the
\* input to the empty string
C22_FormSubmit ==
    formLast.op = "add" =>
        IF formLast.input = ""
        THEN /\ formLast.calls = 0
             /\ formTodos = formLast.before
             /\ formInput = formLast.input
        ELSE /\ formLast.calls = 1
             /\ Len(formTodos) = Len(formLast.before) + 1
             /\ formTodos[1].todo = formLast.input
             /\ formTodos[1].completed = FALSE
             /\ Tail(formTodos) = formLast.before
             /\ formInput = ""

\* C22 witness: a second todo was submitted with a non-empty input
C22_Witness ==
    /\ formLast.op = "add"
    /\ formLast.input = "walk dog"
    /\ Len(formTodos) = 2
    /\ formInput = ""

\* the form was submitted with an empty input while the store held a todo
EmptySubmitted ==
    formLast.op = "add" /\ formLast.input = "" /\ formTodos # <<>>

\* the record of an id is in the collection and completed
CompletedIn(coll, id) == HasId(coll, id) /\ TodoOf(coll, id).completed

\* C23: while a todo is completed, activating its edit button neither
\* changes the edit mode of its item nor invokes updatedTodo, and the stored
\* text of a todo does not change while it is completed
C23_CompletedNotEdited ==
    /\ []((itemLast.op = "editButton" /\ itemLast.completed) =>
             /\ itemLast.calls = 0
             /\ isTodoEditable[itemLast.id] = itemLast.editable)
    /\ [][(itemLast'.op = "editButton" /\ itemLast'.completed)
             => itemTodos' = itemTodos]_vars
    /\ [][\A id \in Ids :
             (CompletedIn(itemTodos, id) /\ CompletedIn(itemTodos', id))
                => TodoOf(itemTodos', id).todo = TodoOf(itemTodos, id).todo]_vars

\* C23 witness: the edit button of a completed todo was activated while its
\* item was in edit mode with a text other than the stored one
C23_Witness ==
    /\ itemLast.op = "editButton"
    /\ itemLast.completed
    /\ itemLast.editable
    /\ CompletedIn(itemTodos, itemLast.id)
    /\ todoMsgOf[itemLast.id] # TodoOf(itemTodos, itemLast.id).todo

\* C29: in every state the item of a completed todo is not in edit mode
\* (its text input is read-only), whatever the order in which the edit
\* button and the checkbox were used
C29_CompletedReadOnly ==
    \A i \in 1..Len(itemTodos) :
        itemTodos[i].completed => ~isTodoEditable[itemTodos[i].id]

(***************************************************************************)
(* Specifications                                                          *)
(***************************************************************************)
Init == TodoInit /\ ReducerInit /\ CurrencyInit /\ NoProviderInit
        /\ ThemeInit
        /\ UserInit
        /\ BatchInit
        /\ HeapInit
        /\ PageInit
        /\ TeardownInit
        /\ FormInit
        /\ ItemInit

\* the Context todo store
Next == TodoNext

Spec == Init /\ [][Next]_vars

\* the Reducer store
SpecReducer == Init /\ [][ReducerNext]_vars

\* the useCurrencyInfo hook
SpecCurrency == Init /\ [][CurrencyNext]_vars

\* consumers with no enclosing provider
SpecNoProvider == Init /\ [][NoProviderNext]_vars

\* the theme store
SpecTheme == Init /\ [][ThemeNext]_vars

\* the user store
SpecUser == Init /\ [][UserNext]_vars

\* the Context todo store with the update queue between two renders
SpecBatch == Init /\ [][BatchNext]_vars

\* the Context todo store with the identity of its arrays and objects
SpecHeap == Init /\ [][HeapNext]_vars

\* one of the three Context applications, with page reloads
SpecReload == Init /\ [][ReloadNext]_vars

\* TodoForm with the store it adds to
SpecForm == Init /\ [][FormNext]_vars

\* the TodoItem components with the store they act on
SpecItem == Init /\ [][ItemNext]_vars

\* the theme store, with the effects React schedules carried out
SpecThemeFair == SpecTheme /\ WF_vars(themeEffect)

\* the useCurrencyInfo hook with the teardown of its component
SpecTeardown == Init /\ [][TeardownNext]_vars

\* the same, with a network that answers or fails every fetch and promise
\* chains that run to their end
SpecTeardownFair ==
    /\ SpecTeardown
    /\ \A i \in TeardownReqIds : WF_vars(fetchSettles(i)) /\ WF_vars(bodyRead(i))

\* the user store, with the renders React schedules after a state change
\* carried out
SpecUserFair ==
    /\ SpecUser
    /\ WF_vars(renderProvider)
    /\ \A c \in Consumers : WF_vars(renderConsumer(c))

====
